---- MODULE Spec2Model ----
(***************************************************************************)
(* A model of nbgrader's JupyterHub authenticator, nbgrader/auth/hubauth.py *)
(* (class HubAuth).                                                         *)
(*                                                                          *)
(* Strings are sequences of tokens.  A token is one character ("/", "?",    *)
(* "a") or a literal of the source that neither starts a "//" nor ends in   *)
(* "/" (such as "/hub/api"), so that concatenation is \o and                *)
(* str.rstrip('/') removes trailing "/" tokens.                             *)
(***************************************************************************)
EXTENDS Integers, Sequences, FiniteSets, TLC

\* ------------------------------------------------------------------ bounds
MaxLen == 2         \* longest configured / assigned url string, in tokens
MaxRequests == 2    \* web requests handled after construction
MaxAssign == 2      \* trait assignments made after construction

\* ----------------------------------------------------------------- strings
Chars == {"/", "a"}

Strs == UNION {[1..k -> Chars] : k \in 0..MaxLen}

RECURSIVE rstrip(_)
\* str.rstrip('/')
rstrip(s) ==
    IF Len(s) > 0 /\ s[Len(s)] = "/" THEN rstrip(SubSeq(s, 1, Len(s) - 1)) ELSE s

RECURSIVE lstrip(_)
\* str.lstrip('/')
lstrip(s) == IF Len(s) > 0 /\ s[1] = "/" THEN lstrip(Tail(s)) ELSE s

\* str.strip('/')
strip(s) == lstrip(rstrip(s))

EndsWithSlash(s) == Len(s) > 0 /\ s[Len(s)] = "/"

StartsWithSlash(s) == Len(s) > 0 /\ s[1] = "/"

\* ------------------------------------------------------------ value domains
Usernames == {"alice", "bob"}

None == "None"

Unset == "<unset>"

_ip == <<"127.0.0.1">>

_port == <<"5000">>

ConnectIps == {<<>>, <<"10.0.0.9">>}

HubapiUrls == {<<"http://", "127.0.0.1", ":8081">>, <<"http://hub:9000">>}

HubapiTokens == {<<>>, <<"secret">>}

HubapiCookies == {<<"jupyter-hub-token">>, <<"other-cookie">>}

\* notebook_server_user: '' (the default) or the user hosting the notebooks
ServerUsers == {"", "bob"}

\* status codes the hub may answer with
HubStatuses == {200, 201, 202, 204, 404}

\* what the hub knows of a user's notebook server
ServerStates == {"absent", "spawning", "running"}

LegacyNames ==
    {"proxy_address", "proxy_port", "hub_address", "hub_port",
     "hubapi_address", "hubapi_port"}

ProxyStatuses == {200, 201, 403}

ProxyBodies == {"", "forbidden"}

NoError == [type |-> "none"]

\* an optional configuration value: absent from the configuration, or given
Opt(S) == {[given |-> FALSE, value |-> <<>>]} \cup {[given |-> TRUE, value |-> v] : v \in S}

Absent == [given |-> FALSE, value |-> <<>>]

\* the configurations of a deployment whose options are all current or default,
\* but for the allow-list, the hosting user and the jupyterhub package
ServingConfigs ==
    [HubAuth : {{}},
     graders : SUBSET Usernames,
     remap_url : {Absent},
     hubapi_base_url : {Absent},
     hubapi_token : {Absent},
     hubapi_cookie : {Absent},
     connect_ip : {<<>>},
     notebook_server_user : ServerUsers,
     notebook_url_prefix : Opt({<<"/", "Documents", "/">>}),
     course_id : {<<"a">>},
     JupyterHubAuth : BOOLEAN]

\* the configurations of the url and token options, legacy names included
OptionConfigs ==
    [HubAuth : SUBSET LegacyNames,
     graders : {{}},
     remap_url : Opt(Strs),
     hubapi_base_url : Opt({<<"http://hub:9000">>}),
     hubapi_token : Opt({<<"secret">>}),
     hubapi_cookie : Opt({<<"other-cookie">>}),
     connect_ip : ConnectIps,
     notebook_server_user : {""},
     notebook_url_prefix : {Absent},
     course_id : Strs,
     JupyterHubAuth : BOOLEAN]

\* the configurations of the route prefix
RemapConfigs ==
    [HubAuth : {{}},
     graders : {{}},
     remap_url : Opt(Strs),
     hubapi_base_url : {Absent},
     hubapi_token : {Absent},
     hubapi_cookie : {Absent},
     connect_ip : {<<>>},
     notebook_server_user : {""},
     notebook_url_prefix : {Absent},
     course_id : Strs,
     JupyterHubAuth : {TRUE}]

\* ------------------------------------------------------------------- state
VARIABLES
    phase,          \* "new", "rejected", "register_failed" or "ready"
    error,          \* the exception that aborted construction, or NoError
    self,           \* the HubAuth instance's attributes
    legacyGiven,    \* the names in the HubAuth section of the configuration given
    proxyRequests,  \* the requests the proxy has received, with its answers
    nAssign,        \* trait assignments made after construction
    hubServers,     \* the hub's record of each user's notebook server
    req,            \* the web request being served: its stage and its user
    nReq,           \* web requests that have arrived
    lastCall        \* the last method called: its argument, result and hub requests

vars == <<phase, error, self, legacyGiven, proxyRequests, nAssign, hubServers, req, nReq, lastCall>>

NoCall == [op |-> "none", arg |-> <<>>, ret |-> None, requests |-> <<>>]

NoRequest == [pc |-> "idle", user |-> None]

\* ----------------------------------------------------- the hub-auth delegate
NoDelegate(st) ==
    [state |-> st, login_url |-> <<>>, api_url |-> <<>>, api_token |-> <<>>,
     cookie_name |-> <<>>]

_hub_authenticator_default(s) ==
    [state |-> "instance",
     login_url |-> <<"/hub/login">>,
     api_url |-> s.hubapi_base_url \o <<"/hub/api">>,
     api_token |-> s.hubapi_token,
     cookie_name |-> s.hubapi_cookie]

\* reading self.hub_authenticator: the Instance trait is built on first read;
\* without the jupyterhub package the attribute is the class attribute None
hub_authenticator(s) ==
    IF s.hub_authenticator.state = "lazy"
    THEN [s EXCEPT !.hub_authenticator = _hub_authenticator_default(s)]
    ELSE s

_hubapi_base_url_changed(s, new) ==
    LET t == hub_authenticator(s) IN
    IF t.hub_authenticator.state = "instance"
    THEN [t EXCEPT !.hub_authenticator.api_url = new \o <<"/hub/api">>]
    ELSE t

\* the token handler writing the cookie name
_hubapi_token_changed_miscopied(s, new) ==
    LET t == hub_authenticator(s) IN
    IF t.hub_authenticator.state = "instance"
    THEN [t EXCEPT !.hub_authenticator.cookie_name = new]
    ELSE t

_hubapi_token_changed(s, new) ==
    LET t == hub_authenticator(s) IN
    IF t.hub_authenticator.state = "instance"
    THEN [t EXCEPT !.hub_authenticator.api_token = new]
    ELSE t

_hubapi_cookie_changed(s, new) ==
    LET t == hub_authenticator(s) IN
    IF t.hub_authenticator.state = "instance"
    THEN [t EXCEPT !.hub_authenticator.cookie_name = new]
    ELSE t

\* the prefix is None (not given) or a string
_notebook_url_prefix_changed(s, new) ==
    [s EXCEPT !.notebook_url_prefix = [given |-> TRUE, value |-> strip(new)]]

_remap_url_default(course_id) == <<"/hub/nbgrader", "/">> \o course_id

\* the nested assignment notifies again only if it changed the value, and
\* rstrip is idempotent, so the handler runs to this fixpoint
_remap_url_changed(s, new) == [s EXCEPT !.remap_url = rstrip(new)]

\* traitlets: assigning a trait stores the value and calls _<name>_changed
\* when the value differs from the old one
SetTrait(s, name, v) ==
    IF s[name] = v THEN s
    ELSE LET t == [s EXCEPT ![name] = v] IN
         CASE name = "remap_url" -> _remap_url_changed(t, v)
           [] name = "hubapi_base_url" -> _hubapi_base_url_changed(t, v)
           [] name = "hubapi_token" -> _hubapi_token_changed(t, v)
           [] name = "hubapi_cookie" -> _hubapi_cookie_changed(t, v)
           [] OTHER -> t

\* ----------------------------------------------------------- construction
ValueError(name, use) == [type |-> "ValueError", option |-> name, use |-> use]

\* the hub_port test naming the hubapi option
_config_changed_miscopied(new) ==
    IF "proxy_address" \in new.HubAuth THEN ValueError("proxy_address", "proxy_base_url")
    ELSE IF "proxy_port" \in new.HubAuth THEN ValueError("proxy_port", "proxy_base_url")
    ELSE IF "hub_address" \in new.HubAuth THEN ValueError("hub_address", "hub_base_url")
    ELSE IF "hub_port" \in new.HubAuth THEN ValueError("hub_port", "hubapi_base_url")
    ELSE IF "hubapi_address" \in new.HubAuth THEN ValueError("hubapi_address", "hubapi_base_url")
    ELSE IF "hubapi_port" \in new.HubAuth THEN ValueError("hubapi_port", "hubapi_base_url")
    ELSE NoError

_config_changed(new) ==
    IF "proxy_address" \in new.HubAuth THEN ValueError("proxy_address", "proxy_base_url")
    ELSE IF "proxy_port" \in new.HubAuth THEN ValueError("proxy_port", "proxy_base_url")
    ELSE IF "hub_address" \in new.HubAuth THEN ValueError("hub_address", "hub_base_url")
    ELSE IF "hub_port" \in new.HubAuth THEN ValueError("hub_port", "hub_base_url")
    ELSE IF "hubapi_address" \in new.HubAuth THEN ValueError("hubapi_address", "hubapi_base_url")
    ELSE IF "hubapi_port" \in new.HubAuth THEN ValueError("hubapi_port", "hubapi_base_url")
    ELSE NoError

\* the class attributes and trait defaults, before any configuration is loaded
Defaults(JupyterHubAuth) ==
    [graders |-> {},
     hub_authenticator |-> NoDelegate(IF JupyterHubAuth THEN "lazy" ELSE "none"),
     hub_base_url |-> <<"http://", "127.0.0.1", ":8000">>,
     hubapi_base_url |-> <<"http://", "127.0.0.1", ":8081">>,
     hubapi_token |-> <<>>,
     hubapi_cookie |-> <<"jupyter-hub-token">>,
     proxy_base_url |-> <<"http://", "127.0.0.1", ":8001">>,
     proxy_token |-> <<>>,
     notebook_url_prefix |-> Absent,
     remap_url |-> <<>>,
     connect_ip |-> <<>>,
     notebook_server_user |-> "",
     _user |-> Unset,
     _base_url |-> <<>>]

LoadOpt(s, name, opt) == IF opt.given THEN SetTrait(s, name, opt.value) ELSE s

\* super().__init__: the configuration is assigned to the traits it names; a
\* trait it does not name keeps its (dynamic) default, which notifies nobody
LoadConfig(cfg) ==
    LET s0 == [Defaults(cfg.JupyterHubAuth) EXCEPT
                  !.graders = cfg.graders,
                  !.connect_ip = cfg.connect_ip,
                  !.notebook_server_user = cfg.notebook_server_user]
        s1 == IF cfg.remap_url.given
              THEN SetTrait(s0, "remap_url", cfg.remap_url.value)
              ELSE [s0 EXCEPT !.remap_url = _remap_url_default(cfg.course_id)]
        s2 == LoadOpt(s1, "hubapi_base_url", cfg.hubapi_base_url)
        s3 == LoadOpt(s2, "hubapi_token", cfg.hubapi_token)
        s4 == LoadOpt(s3, "hubapi_cookie", cfg.hubapi_cookie)
    IN  IF cfg.notebook_url_prefix.given
        THEN _notebook_url_prefix_changed(s4, cfg.notebook_url_prefix.value)
        ELSE s4

\* requests.request(method, base_url + relative_path, headers, data), with the
\* status and the body it is answered with
_request(s, service, relative_path, method, body, status, answer) ==
    [method |-> method,
     base_url |-> IF service = "proxy" THEN s.proxy_base_url ELSE s.hubapi_base_url,
     path |-> relative_path,
     token |-> IF service = "proxy" THEN s.proxy_token ELSE s.hubapi_token,
     data |-> body,
     status |-> status,
     answer |-> answer]

_proxy_request(s, relative_path, method, body, status, answer) ==
    _request(s, "proxy", relative_path, method, body, status, answer)

_hubapi_request(s, relative_path, method, status, answer) ==
    _request(s, "hubapi", relative_path, method, <<>>, status, answer)

\* the POST of register_with_proxy, with the status and body the proxy answers
RouteRequest(s, status, text) ==
    LET ip == IF s.connect_ip # <<>> THEN s.connect_ip ELSE _ip
        target == <<"http://">> \o ip \o <<":">> \o _port
    IN  _proxy_request(s, <<"/api/routes">> \o s.remap_url, "POST",
                       [target |-> target], status, text)

\* any 2xx answer taken for a registered route
RegistrationOk_any2xx(status) == status \in 200..299

RegistrationOk(status) == status = 201

\* HubAuth(...): _config_changed, then the traits, then register_with_proxy
Construct(cfg, status, text) ==
    /\ phase = "new"
    /\ legacyGiven' = cfg.HubAuth
    /\ UNCHANGED <<nAssign, hubServers, req, nReq, lastCall>>
    /\ IF _config_changed(cfg) # NoError
       THEN /\ phase' = "rejected"
            /\ error' = _config_changed(cfg)
            /\ UNCHANGED <<self, proxyRequests>>
       ELSE LET s == LoadConfig(cfg)
                t == [s EXCEPT !._base_url = s.hub_base_url \o s.remap_url]
            IN  /\ self' = t
                /\ proxyRequests' = Append(proxyRequests, RouteRequest(t, status, text))
                /\ IF RegistrationOk(status)
                   THEN phase' = "ready" /\ error' = NoError
                   ELSE /\ phase' = "register_failed"
                        /\ error' = [type |-> "Exception", status_code |-> status,
                                     text |-> text]

\* a trait assigned after construction
Assign(name, v) ==
    /\ phase = "ready"
    /\ nAssign < MaxAssign
    /\ nAssign' = nAssign + 1
    /\ self' = SetTrait(self, name, v)
    /\ lastCall' = [op |-> "assign", arg |-> name, ret |-> None, requests |-> <<>>]
    /\ UNCHANGED <<phase, error, legacyGiven, proxyRequests, hubServers, req, nReq>>

AssignRemapUrl == \E v \in Strs : Assign("remap_url", v)

AssignHubapiBaseUrl == \E v \in HubapiUrls : Assign("hubapi_base_url", v)

AssignHubapiToken == \E v \in HubapiTokens : Assign("hubapi_token", v)

AssignHubapiCookie == \E v \in HubapiCookies : Assign("hubapi_cookie", v)


\* --------------------------------------------------------------- the hub
\* GET /hub/api/users/<user>: the user model the hub answers 200 with
ServerOf(hub, user) == IF user \in DOMAIN hub THEN hub[user] ELSE "absent"

user_data(user) ==
    [server |-> IF ServerOf(hubServers, user) = "running" THEN "/user/" ELSE None,
     pending |-> IF ServerOf(hubServers, user) = "spawning" THEN "spawn" ELSE None]

NoData == [server |-> None, pending |-> None]

\* POST /hub/api/users/<user>/server: 201 the server is started, 202 the spawn
\* is accepted and pending; any other answer leaves the hub as it was
Spawned(user, status) ==
    CASE status = 201 /\ user \in DOMAIN hubServers -> [hubServers EXCEPT ![user] = "running"]
      [] status = 202 /\ user \in DOMAIN hubServers -> [hubServers EXCEPT ![user] = "spawning"]
      [] OTHER -> hubServers


\* ----------------------------------------------------- the request methods
\* user_model is what the delegate resolves the request's cookie to: a user's
\* name, or None
get_user(s, user_model) ==
    LET t == hub_authenticator(s) IN
    IF t.hub_authenticator.state = "none"
    THEN [self |-> t, ret |-> "AttributeError"]
    ELSE [self |-> t, ret |-> user_model]

\* authenticate without the allow-list test
authenticate_unchecked(s, user) == [self |-> [s EXCEPT !._user = user], ret |-> TRUE]

\* authenticate recording the user before the allow-list test
authenticate_records_first(s, user) ==
    [self |-> [s EXCEPT !._user = user], ret |-> user \in s.graders]

authenticate(s, user) ==
    IF user \in s.graders
    THEN [self |-> [s EXCEPT !._user = user], ret |-> TRUE]
    ELSE [self |-> s, ret |-> FALSE]

\* the user whose server the request methods act on
ServerUser(s) ==
    IF s.notebook_server_user # "" THEN s.notebook_server_user ELSE s._user

LookupOk(status) == status = 200

\* any 2xx answer taken for a started server
SpawnOk_any2xx(status) == status \in 200..299

SpawnOk(status) == status \in {201, 202}

\* lookup and spawn are the statuses the hub answers the two calls with
notebook_server_exists(s, lookup, spawn) ==
    LET user == ServerUser(s)
        get == _hubapi_request(s, <<"/hub/api/users/", user>>, "GET", lookup,
                               IF lookup = 200 THEN user_data(user) ELSE NoData)
        post == _hubapi_request(s, <<"/hub/api/users/", user, "/server">>, "POST",
                                spawn, NoData)
    IN  IF ~LookupOk(lookup)
        THEN [ret |-> FALSE, requests |-> <<get>>, hub |-> hubServers]
        ELSE IF user_data(user).server = None /\ user_data(user).pending # "spawn"
        THEN [ret |-> SpawnOk(spawn), requests |-> <<get, post>>,
              hub |-> Spawned(user, spawn)]
        ELSE [ret |-> TRUE, requests |-> <<get>>, hub |-> hubServers]

NoCookie == [name |-> <<>>, value |-> None, path |-> <<>>]

get_notebook_server_cookie(s, status) ==
    LET user == s.notebook_server_user
        post == _hubapi_request(s, <<"/hub/api/users/", user, "/admin-access">>, "POST",
                                status, NoData)
    IN  IF user = ""
        THEN [ret |-> NoCookie, requests |-> <<>>]
        ELSE IF status # 200
        THEN [ret |-> NoCookie, requests |-> <<post>>]
        ELSE [ret |-> [name |-> s.hubapi_cookie \o <<"-", user>>,
                       value |-> "cookie of the response",
                       path |-> <<"/user/", user>>],
              requests |-> <<post>>]

get_notebook_url(s, relative_path) ==
    LET path == IF s.notebook_url_prefix.given
                THEN s.notebook_url_prefix.value \o <<"/">> \o relative_path
                ELSE relative_path
    IN  s.hub_base_url \o <<"/user/", ServerUser(s), "/notebooks/">> \o path

\* ------------------------------------------------------ the serving layer
\* One request is served at a time: the cookie is resolved, the user is
\* authenticated, and only an authenticated request reaches the notebook
\* server methods.
RequestArrives == req.pc \in {"idle", "rejected", "authenticated"}

Resolved(ret) ==
    IF ret = "AttributeError" THEN [pc |-> "rejected", user |-> None]
    ELSE [pc |-> "got_user", user |-> ret]

Decided(ret) == [req EXCEPT !.pc = IF ret THEN "authenticated" ELSE "rejected"]

Authenticated == req.pc = "authenticated"

GetUser(user_model) ==
    /\ phase = "ready"
    /\ RequestArrives
    /\ nReq < MaxRequests
    /\ nReq' = nReq + 1
    /\ LET r == get_user(self, user_model) IN
          /\ self' = r.self
          /\ req' = Resolved(r.ret)
          /\ lastCall' = [op |-> "get_user", arg |-> user_model, ret |-> r.ret,
                          requests |-> <<>>]
    /\ UNCHANGED <<phase, error, legacyGiven, proxyRequests, nAssign, hubServers>>

Authenticate ==
    /\ phase = "ready"
    /\ req.pc = "got_user"
    /\ LET r == authenticate(self, req.user) IN
          /\ self' = r.self
          /\ req' = Decided(r.ret)
          /\ lastCall' = [op |-> "authenticate", arg |-> req.user, ret |-> r.ret,
                          requests |-> <<>>]
    /\ UNCHANGED <<phase, error, legacyGiven, proxyRequests, nAssign, hubServers, nReq>>

NotebookServerExists(lookup, spawn) ==
    /\ phase = "ready"
    /\ Authenticated
    /\ LET r == notebook_server_exists(self, lookup, spawn) IN
          /\ hubServers' = r.hub
          /\ lastCall' = [op |-> "notebook_server_exists", arg |-> ServerUser(self),
                          ret |-> r.ret, requests |-> r.requests,
                          server |-> ServerOf(r.hub, ServerUser(self))]
    /\ UNCHANGED <<phase, error, self, legacyGiven, proxyRequests, nAssign, req, nReq>>

GetNotebookServerCookie(status) ==
    /\ phase = "ready"
    /\ Authenticated
    /\ LET r == get_notebook_server_cookie(self, status) IN
          lastCall' = [op |-> "get_notebook_server_cookie",
                       arg |-> self.notebook_server_user,
                       ret |-> r.ret, requests |-> r.requests]
    /\ UNCHANGED <<phase, error, self, legacyGiven, proxyRequests, nAssign, hubServers, req, nReq>>

GetNotebookUrl(relative_path) ==
    /\ phase = "ready"
    /\ Authenticated
    /\ lastCall' = [op |-> "get_notebook_url", arg |-> relative_path,
                    ret |-> get_notebook_url(self, relative_path), requests |-> <<>>]
    /\ UNCHANGED <<phase, error, self, legacyGiven, proxyRequests, nAssign, hubServers, req, nReq>>

\* the hub on its own: a user starts a server, a spawn completes, a server stops
HubChanges(user, from, to) ==
    /\ phase = "ready"
    /\ hubServers[user] = from
    /\ hubServers' = [hubServers EXCEPT ![user] = to]
    /\ UNCHANGED <<phase, error, self, legacyGiven, proxyRequests, nAssign, req, nReq, lastCall>>

HubSpawnStarts == \E u \in Usernames : HubChanges(u, "absent", "spawning")

HubSpawnCompletes == \E u \in Usernames : HubChanges(u, "spawning", "running")

HubServerStops == \E u \in Usernames : HubChanges(u, "running", "absent")

\* ------------------------------------------------------------ url rewriting
\* the prefix added without the root case
add_remap_url_prefix_plain(s, url) == s.remap_url \o url

add_remap_url_prefix(s, url) ==
    IF url = <<"/">> THEN s.remap_url \o <<"/", "?">> ELSE s.remap_url \o url

\* every keyword argument rewritten, not only 'url'
transform_handler_all_kwargs(s, handler) ==
    LET new_handler == [handler EXCEPT ![1] = s.remap_url \o handler[1]]
    IN  IF Len(handler) > 2
        THEN [ret |-> [new_handler EXCEPT
                          ![3] = [k \in DOMAIN handler[3] |-> s.remap_url \o handler[3][k]]],
              handler |-> handler]
        ELSE [ret |-> new_handler, handler |-> handler]

\* handler is a tuple (path, class), (path, class, kwargs) or (path, class,
\* kwargs, name); the result holds the tuple returned and the argument as the
\* call leaves it
transform_handler(s, handler) ==
    LET url == add_remap_url_prefix(s, handler[1])
        new_handler == [handler EXCEPT ![1] = url]
    IN  IF Len(handler) > 2
        THEN LET new_args ==
                   IF "url" \in DOMAIN handler[3]
                   THEN [handler[3] EXCEPT !["url"] = add_remap_url_prefix(s, handler[3]["url"])]
                   ELSE handler[3]
             IN  [ret |-> [new_handler EXCEPT ![3] = new_args], handler |-> handler]
        ELSE [ret |-> new_handler, handler |-> handler]

KwargUrls == {<<"/">>, <<"/", "a">>}

Kwargs == UNION {[K -> KwargUrls] : K \in SUBSET {"url", "path"}}

HandlerPaths == {<<"/">>, <<"/", "a">>, <<"a", "/", "?">>}

Handlers ==
    {<<p, "Handler">> : p \in HandlerPaths}
    \cup {<<p, "Handler", k>> : p \in HandlerPaths, k \in Kwargs}
    \cup {<<p, "Handler", k, "name">> : p \in HandlerPaths, k \in Kwargs}

AddRemapUrlPrefix(url) ==
    /\ phase = "ready"
    /\ lastCall' = [op |-> "add_remap_url_prefix", arg |-> url,
                    ret |-> add_remap_url_prefix(self, url), requests |-> <<>>]
    /\ UNCHANGED <<phase, error, self, legacyGiven, proxyRequests, nAssign, hubServers, req, nReq>>

TransformHandler(handler) ==
    /\ phase = "ready"
    /\ LET r == transform_handler(self, handler) IN
          lastCall' = [op |-> "transform_handler", arg |-> handler,
                       ret |-> r, requests |-> <<>>]
    /\ UNCHANGED <<phase, error, self, legacyGiven, proxyRequests, nAssign, hubServers, req, nReq>>

\* ---------------------------------------------------------- specifications
Init ==
    /\ phase = "new"
    /\ error = NoError
    /\ self = Defaults(TRUE)
    /\ legacyGiven = {}
    /\ proxyRequests = <<>>
    /\ nAssign = 0
    /\ hubServers \in [Usernames -> {"absent"}]
    /\ req = NoRequest
    /\ nReq = 0
    /\ lastCall = NoCall

ConstructServing ==
    /\ phase = "new"
    /\ \E cfg \in ServingConfigs, status \in ProxyStatuses, text \in ProxyBodies :
          Construct(cfg, status, text)

ConstructConfigured ==
    /\ phase = "new"
    /\ \E cfg \in OptionConfigs, status \in ProxyStatuses, text \in ProxyBodies :
          Construct(cfg, status, text)

ConstructRemapped ==
    /\ phase = "new"
    /\ \E cfg \in RemapConfigs, status \in ProxyStatuses, text \in ProxyBodies :
          Construct(cfg, status, text)

\* the adapter serving requests
Next ==
    \/ ConstructServing
    \/ \E m \in Usernames \cup {None} : GetUser(m)
    \/ Authenticate
    \/ \E lookup \in HubStatuses, spawn \in HubStatuses : NotebookServerExists(lookup, spawn)
    \/ \E status \in HubStatuses : GetNotebookServerCookie(status)
    \/ GetNotebookUrl(<<"ps1.ipynb">>)
    \/ HubSpawnStarts
    \/ HubSpawnCompletes
    \/ HubServerStops

Spec == Init /\ [][Next]_vars

\* the adapter being configured
NextConfig ==
    \/ ConstructConfigured
    \/ AssignRemapUrl
    \/ AssignHubapiBaseUrl
    \/ AssignHubapiToken
    \/ AssignHubapiCookie

SpecConfig == Init /\ [][NextConfig]_vars

\* the adapter rewriting urls
NextUrl ==
    \/ ConstructRemapped
    \/ AssignRemapUrl
    \/ \E url \in Strs : AddRemapUrlPrefix(url)
    \/ \E handler \in Handlers : TransformHandler(handler)

SpecUrl == Init /\ [][NextUrl]_vars

\* ------------------------------------------------------------------ claims
\* POST /hub/api/users/<user>/server or /hub/api/users/<user>/admin-access
IsGrant(r) ==
    /\ r.method = "POST"
    /\ Len(r.path) = 3
    /\ r.path[1] = "/hub/api/users/"
    /\ r.path[3] \in {"/server", "/admin-access"}

IsLookup(r, user) == r.method = "GET" /\ r.path = <<"/hub/api/users/", user>>

IsSpawn(r, user) == r.method = "POST" /\ r.path = <<"/hub/api/users/", user, "/server">>

Grants == {i \in DOMAIN lastCall.requests : IsGrant(lastCall.requests[i])}

C2_Authenticate ==
    [][(req.pc = "got_user" /\ req'.pc # "got_user") =>
          /\ lastCall'.op = "authenticate"
          /\ lastCall'.ret = (req.user \in self.graders)
          /\ lastCall'.ret => self' = [self EXCEPT !._user = req.user]
          /\ ~lastCall'.ret => self' = self]_vars

C2_Witness ==
    /\ lastCall.op = "authenticate"
    /\ lastCall.ret = FALSE
    /\ lastCall.arg = "bob"
    /\ self._user = "alice"

Is2xx(status) == status \in 200..299

\* C3 as stated: one call issues one lookup and at most one spawn; it returns
\* true without a spawn when the hub reports the server running or a spawn
\* pending; it returns false if the lookup or the spawn is answered with a
\* non-2xx status and true otherwise; when it returns true the server is
\* running or spawning.
C3_AsStated ==
    lastCall.op = "notebook_server_exists" =>
        LET rs == lastCall.requests IN
        /\ Len(rs) \in {1, 2}
        /\ IsLookup(rs[1], lastCall.arg)
        /\ Len(rs) = 2 => IsSpawn(rs[2], lastCall.arg)
        /\ lastCall.ret = (\A i \in DOMAIN rs : Is2xx(rs[i].status))
        /\ lastCall.ret => lastCall.server \in {"running", "spawning"}

\* C3, amended: one call issues one lookup and at most one spawn, both for the
\* same user; with the lookup answered 200 it issues no spawn and returns true
\* when the hub reports a server or a pending spawn, and otherwise issues
\* exactly one spawn; it returns false exactly when the lookup is answered
\* with a status other than 200 or the spawn with one other than 201 or 202;
\* when it returns true the server is running or spawning.
C3_NotebookServerExists ==
    lastCall.op = "notebook_server_exists" =>
        LET rs == lastCall.requests
            reported == rs[1].answer.server # None \/ rs[1].answer.pending = "spawn"
        IN
        /\ Len(rs) \in {1, 2}
        /\ IsLookup(rs[1], lastCall.arg)
        /\ Len(rs) = 2 => IsSpawn(rs[2], lastCall.arg)
        /\ Len(rs) = 2 <=> (rs[1].status = 200 /\ ~reported)
        /\ (rs[1].status = 200 /\ reported) => lastCall.ret
        /\ lastCall.ret = (/\ rs[1].status = 200
                           /\ Len(rs) = 2 => rs[2].status \in {201, 202})
        /\ lastCall.ret => lastCall.server \in {"running", "spawning"}

C3_Witness ==
    /\ lastCall.op = "notebook_server_exists"
    /\ Len(lastCall.requests) = 2
    /\ lastCall.requests[2].status = 202
    /\ lastCall.ret = TRUE
    /\ lastCall.server = "spawning"

Registered == phase \in {"ready", "register_failed"}

\* what holds of the registration whether or not the configuration is rejected
C4_Rest ==
    /\ Len(proxyRequests) <= 1
    /\ Registered =>
          /\ Len(proxyRequests) = 1
          /\ proxyRequests[1].method = "POST"
          /\ Head(proxyRequests[1].path) = "/api/routes"
          /\ self.hub_base_url \o Tail(proxyRequests[1].path) = self._base_url
          /\ proxyRequests[1].base_url = self.proxy_base_url
          /\ proxyRequests[1].data.target =
                <<"http://">> \o (IF self.connect_ip = <<>> THEN _ip ELSE self.connect_ip)
                \o <<":">> \o _port
    /\ phase = "ready" <=> (Len(proxyRequests) = 1 /\ proxyRequests[1].status = 201)
    /\ (Len(proxyRequests) = 1 /\ proxyRequests[1].status # 201) =>
          /\ phase = "register_failed"
          /\ error = [type |-> "Exception", status_code |-> proxyRequests[1].status,
                      text |-> proxyRequests[1].answer]

\* C4 as stated: constructing the adapter issues exactly one registration POST,
\* to /api/routes<remap_url> with target http://<connect_ip or own ip>:<port>;
\* construction completes iff the proxy answers 201, any other status aborts it
\* with an error holding the status and the body, and no other registration is
\* ever issued.
C4_AsStated == C4_Rest /\ (phase # "new" => Len(proxyRequests) = 1)

\* C4, amended: constructing the adapter issues at most one registration POST,
\* and exactly one unless the configuration is rejected for a legacy option
\* name, when it issues none; the rest as stated.
C4_Registration == C4_Rest /\ (phase \in {"new", "rejected"} => proxyRequests = <<>>)

C4_Witness ==
    /\ phase = "ready"
    /\ nAssign = MaxAssign
    /\ self.hub_base_url \o self.remap_url # self._base_url
    /\ self.connect_ip # <<>>
    /\ Len(proxyRequests) = 1

\* the option that replaces a legacy name
Replacement(name) ==
    CASE name \in {"proxy_address", "proxy_port"} -> "proxy_base_url"
      [] name \in {"hub_address", "hub_port"} -> "hub_base_url"
      [] name \in {"hubapi_address", "hubapi_port"} -> "hubapi_base_url"

\* the order in which _config_changed tests the legacy names
LegacyOrder ==
    <<"proxy_address", "proxy_port", "hub_address", "hub_port",
      "hubapi_address", "hubapi_port">>

FirstLegacy(given) ==
    LegacyOrder[CHOOSE i \in 1..6 :
                   /\ LegacyOrder[i] \in given
                   /\ \A j \in 1..(i - 1) : LegacyOrder[j] \notin given]

\* C6 as stated: for each legacy name, a configuration that sets it is rejected
\* with an error naming that name's replacement, before any registration POST;
\* a configuration with none of the names is not rejected.
C6_AsStated ==
    phase # "new" =>
        /\ \A n \in legacyGiven :
              /\ phase = "rejected"
              /\ error.type = "ValueError"
              /\ error.use = Replacement(n)
              /\ proxyRequests = <<>>
        /\ legacyGiven = {} => phase # "rejected"

\* C6, amended: a configuration that sets any legacy name is rejected, before
\* any registration POST, with an error naming the first legacy name it sets
\* (in the order proxy_address, proxy_port, hub_address, hub_port,
\* hubapi_address, hubapi_port) and that name's replacement; a configuration
\* with none of the names is not rejected.
C6_LegacyRejected ==
    phase # "new" =>
        /\ legacyGiven # {} =>
              /\ phase = "rejected"
              /\ error = ValueError(FirstLegacy(legacyGiven),
                                    Replacement(FirstLegacy(legacyGiven)))
              /\ proxyRequests = <<>>
        /\ legacyGiven = {} => phase # "rejected"

C6_Witness ==
    /\ phase = "rejected"
    /\ legacyGiven = {"hub_port", "hubapi_address"}
    /\ error.use = "hub_base_url"

DelegateInSync ==
    self.hub_authenticator.state = "instance" =>
        /\ self.hub_authenticator.api_url = self.hubapi_base_url \o <<"/hub/api">>
        /\ self.hub_authenticator.api_token = self.hubapi_token
        /\ self.hub_authenticator.cookie_name = self.hubapi_cookie

DelegateFrame ==
    (nAssign' = nAssign + 1 /\ self.hub_authenticator.state = "instance") =>
        LET name == lastCall'.arg
            old == self.hub_authenticator
            new == self'.hub_authenticator
        IN  /\ new.state = "instance"
            /\ new.login_url = old.login_url
            /\ name # "hubapi_base_url" => new.api_url = old.api_url
            /\ name # "hubapi_token" => new.api_token = old.api_token
            /\ name # "hubapi_cookie" => new.cookie_name = old.cookie_name

\* C7: in every state the delegate, once it exists, has api_url =
\* hubapi_base_url + '/hub/api', api_token = hubapi_token and cookie_name =
\* hubapi_cookie, and an assignment changes no delegate field but its own.
C7_DelegateInSync == []DelegateInSync /\ [][DelegateFrame]_vars

C7_Witness ==
    /\ nAssign = 2
    /\ self.hub_authenticator.state = "instance"
    /\ self.hub_authenticator.api_token = <<"secret">>
    /\ self.hub_authenticator.cookie_name = <<"jupyter-hub-token">>
    /\ self.hub_authenticator.api_url = <<"http://hub:9000", "/hub/api">>
    /\ lastCall.arg = "hubapi_token"

Untouched == UNCHANGED <<phase, error, self, legacyGiven, proxyRequests, hubServers>>

TransformedAsClaimed ==
    lastCall.op = "transform_handler" =>
        LET h == lastCall.arg
            r == lastCall.ret.ret
        IN  /\ Len(r) = Len(h)
            /\ r[1] = add_remap_url_prefix(self, h[1])
            /\ r[2] = h[2]
            /\ Len(h) > 2 =>
                  /\ DOMAIN r[3] = DOMAIN h[3]
                  /\ \A k \in DOMAIN h[3] :
                        r[3][k] = IF k = "url" THEN add_remap_url_prefix(self, h[3][k])
                                  ELSE h[3][k]
            /\ Len(h) > 3 => r[4] = h[4]
            /\ lastCall.ret.handler = h

\* C8: transform_handler returns a tuple of the same length in which the path
\* and the 'url' kwarg, if any, are add_remap_url_prefix of the original ones
\* and every other field, every other kwarg and the set of kwargs are as in the
\* argument; the argument and the adapter are left as they were.
C8_TransformHandler ==
    []TransformedAsClaimed /\ [][lastCall'.op = "transform_handler" => Untouched]_vars

C8_Witness ==
    /\ lastCall.op = "transform_handler"
    /\ Len(lastCall.arg) = 4
    /\ DOMAIN lastCall.arg[3] = {"url", "path"}
    /\ lastCall.arg[3]["url"] = <<"/">>
    /\ lastCall.arg[1] = <<"/", "a">>
    /\ self.remap_url = <<"/", "a">>

PrefixedAsClaimed ==
    lastCall.op = "add_remap_url_prefix" =>
        LET url == lastCall.arg
            n == Len(self.remap_url)
        IN  /\ SubSeq(lastCall.ret, 1, n) = self.remap_url
            /\ SubSeq(lastCall.ret, n + 1, Len(lastCall.ret)) =
                  IF url = <<"/">> THEN <<"/", "?">> ELSE url

\* C9: add_remap_url_prefix("/") is remap_url followed by "/?", and for any
\* other path p it is remap_url followed by p; the call changes no state.
C9_AddRemapUrlPrefix ==
    []PrefixedAsClaimed /\ [][lastCall'.op = "add_remap_url_prefix" => Untouched]_vars

C9_Witness ==
    /\ lastCall.op = "add_remap_url_prefix"
    /\ lastCall.arg = <<"/">>
    /\ self.remap_url = <<"/", "a">>
    /\ nAssign > 0

\* s holds a "//"
DoubleSlash(s) == \E i \in 1..(Len(s) - 1) : s[i] = "/" /\ s[i + 1] = "/"

\* C5: a request is served with no state left by another one: at every point
\* of a request, with notebook_server_user unset, the user that
\* notebook_server_exists and get_notebook_url would act on is the one this
\* request's authenticate call accepted, and no user at all when that call
\* returned false or has not been made.
C5_RequestsIndependent ==
    (phase = "ready" /\ req.pc # "idle" /\ self.notebook_server_user = "") =>
        ServerUser(self) = IF req.pc = "authenticated" THEN req.user ELSE Unset

\* C10: once constructed, remap_url has no trailing '/', so the route
\* registered with the proxy and every add_remap_url_prefix of a path that
\* starts with '/' have no '//' where prefix and path meet.
C10_NoTrailingSlash ==
    Registered =>
        /\ ~EndsWithSlash(self.remap_url)
        /\ ~EndsWithSlash(proxyRequests[1].path)
        /\ (lastCall.op = "add_remap_url_prefix" /\ StartsWithSlash(lastCall.arg)) =>
              ~DoubleSlash(SubSeq(lastCall.ret, Len(self.remap_url),
                                  Len(self.remap_url) + 1))

====
